---- MODULE Spec2Model ----
(***************************************************************************)
(* Model of shennong.features.Features (src/shennong/features.py):        *)
(* construction, validate, is_valid, copy and concatenate.                 *)
(*                                                                         *)
(* A numpy array is the record [isArray, shape, rows]: shape is the        *)
(* array's shape, rows its content along the first axis (a 1-D array of    *)
(* length n has n rows of one value, a 2-D array of shape (n, d) has n     *)
(* rows of d values; the content of arrays the code never reads, those of  *)
(* 0 or 3 dimensions, is left out).  A value that is not a numpy array     *)
(* (a list, None) has isArray = FALSE.                                     *)
(*                                                                         *)
(* A properties dictionary is the record [isDict, kv, has, pipeline]: kv   *)
(* maps every key other than 'pipeline' to its value (Absent when the key  *)
(* is not in the dictionary), has tells whether the key 'pipeline' is      *)
(* present and pipeline is its list of entries [name, columns].            *)
(***************************************************************************)
EXTENDS Integers, Sequences, FiniteSets

\* ------------------------------------------------------------ bounds ----
MaxFramesV == 3
MaxTime == 1
MaxFrames == 2
MaxFramesC == 4
MaxDims == 2
MaxTol == 2
MaxSub == 3
MaxCols == 4
MaxParts == 3
MaxEntries == 2

VARIABLES objs, last, tieOrder

vars == <<objs, last, tieOrder>>

\* ------------------------------------------------------------ arrays ----
\* a value of data that np.isfinite rejects (nan, inf)
NaN == -1

Absent == 0

Arr(shape, rows) == [isArray |-> TRUE, shape |-> shape, rows |-> rows]

NotArr == [isArray |-> FALSE, shape |-> <<>>, rows |-> <<>>]

ndim(x) == Len(x.shape)

\* column j of a 2-D array, as a sequence over the frames
Col(rows, j) == [i \in 1..Len(rows) |-> rows[i][j]]

\* times.T of a 2-D array of shape (n, m): m keys of n values each
Transpose(x) == [j \in 1..x.shape[2] |-> Col(x.rows, j)]

\* order of two positions under a sequence of sort keys, the LAST key being
\* the primary one (np.lexsort); FALSE when all the keys are equal
RECURSIVE KeyLess(_, _, _, _)
KeyLess(keys, k, i, j) ==
    IF k = 0 THEN FALSE
    ELSE IF keys[k][i] < keys[k][j] THEN TRUE
    ELSE IF keys[k][i] > keys[k][j] THEN FALSE
    ELSE KeyLess(keys, k - 1, i, j)

\* the permutation that sorts n positions by keys; equal elements come in
\* their original order when tie = "kept", in the opposite one otherwise
SortIndex(keys, n, tie) ==
    LET K == Len(keys)
        Before(j, i) == \/ KeyLess(keys, K, j, i)
                        \/ /\ ~KeyLess(keys, K, i, j)
                           /\ IF tie = "kept" THEN j < i ELSE j > i
        Rank(i) == 1 + Cardinality({j \in 1..n : Before(j, i)})
    IN  [r \in 1..n |-> CHOOSE i \in 1..n : Rank(i) = r]

\* np.argsort(times) of a 1-D array: the default kind is quicksort, which
\* leaves the order of equal elements to the build (tie)
argsort(x, tie) == SortIndex(<<Col(x.rows, 1)>>, Len(x.rows), tie)

\* np.lexsort(keys): a stable sort, last key first
lexsort(keys) == SortIndex(keys, Len(keys[1]), "kept")

isfinite(v) == v # NaN

\* -------------------------------------------------------- Features ----
Features(data, times, properties) ==
    [data |-> data, times |-> times, properties |-> properties]

shape(self) == self.data.shape
nframes(self) == shape(self)[1]
ndims(self) == shape(self)[2]

Ok == [exc |-> "None", msg |-> ""]
Raise(exc, msg) == [exc |-> exc, msg |-> msg]

\* Features.validate: the exception it raises, Ok when it returns
validate(self, tie) ==
    LET data == self.data
        times == self.times
        typeErrors ==
            (IF ~data.isArray THEN <<"data must be a numpy array">> ELSE <<>>)
            \o (IF ~times.isArray THEN <<"times must be a numpy array">>
                ELSE <<>>)
            \o (IF ~self.properties.isDict
                THEN <<"properties must be a dictionnary">> ELSE <<>>)
        dimErrors ==
            (IF ndim(data) # 2 THEN <<"data dimension must be 2">> ELSE <<>>)
            \o (IF ndim(times) > 2 THEN <<"times dimension must be 1 or 2">>
                ELSE <<>>)
            \o (IF ndim(times) = 2 /\ times.shape[2] # 2
                THEN <<"times shape[1] must be 2">> ELSE <<>>)
        index == IF ndim(times) = 1 THEN argsort(times, tie)
                 ELSE lexsort(Transpose(times))
    IN  IF typeErrors # <<>>
        THEN Raise("ValueError", "invalid features data types")
        \* data.shape[0] and times.shape[0] of a 0-dimensional array
        ELSE IF ndim(data) = 0 \/ ndim(times) = 0
        THEN Raise("IndexError", "tuple index out of range")
        ELSE IF dimErrors # <<>> \/ data.shape[1] # times.shape[1]
        THEN Raise("ValueError", "invalid features dimensions")
        ELSE IF ~(\A n \in 1..nframes(self) : n = index[n])
        THEN Raise("ValueError", "times is not sorted in increasing order")
        ELSE IF ~(\A i \in 1..Len(data.rows) :
                    \A j \in 1..Len(data.rows[i]) : isfinite(data.rows[i][j]))
        THEN Raise("ValueError", "data contains non-finite numbers")
        ELSE Ok

\* Features.is_valid: [exc, ret]; only a ValueError of validate is caught
is_valid(self, tie) ==
    LET v == validate(self, tie)
    IN  IF v.exc = "None" THEN [exc |-> "None", ret |-> TRUE]
        ELSE IF v.exc = "ValueError" THEN [exc |-> "None", ret |-> FALSE]
        ELSE [exc |-> v.exc, ret |-> FALSE]

\* ---------------------------------------------------------------- copy ----
\* mutant of Slice: the last, incomplete step is dropped
Slice_floor(x, start, stop, step) ==
    LET hi == IF stop < Len(x.rows) THEN stop ELSE Len(x.rows)
        m == IF hi > start THEN (hi - start) \div step ELSE 0
    IN  [x EXCEPT !.rows = [i \in 1..m |-> x.rows[start + (i - 1) * step + 1]],
                  !.shape[1] = m]

\* x[start:stop:step] along the first axis (0-based start, stop excluded)
Slice(x, start, stop, step) ==
    LET hi == IF stop < Len(x.rows) THEN stop ELSE Len(x.rows)
        m == IF hi > start THEN (hi - start + step - 1) \div step ELSE 0
    IN  [x EXCEPT !.rows = [i \in 1..m |-> x.rows[start + (i - 1) * step + 1]],
                  !.shape[1] = m]

\* x.astype(dtype), for the dtype bool: zero is False, the rest True
astype(x, dtype) ==
    [x EXCEPT !.rows = [i \in 1..Len(x.rows) |->
                          [j \in 1..Len(x.rows[i]) |->
                              IF x.rows[i][j] = 0 THEN 0 ELSE 1]]]

\* mutant of copy: the data is subsampled and the times are not
copy_data_only(self, dtype, subsample) ==
    LET step == IF subsample = <<>> THEN 1 ELSE subsample[1].v
    IN  IF subsample # <<>> /\ (~subsample[1].isInt \/ subsample[1].v <= 0)
        THEN [status |-> Raise("ValueError",
                               "subsample must be a strictly positive integer"),
              result |-> <<>>]
        ELSE [status |-> Ok,
              result |-> <<Features(Slice(self.data, 0, nframes(self), step),
                                    self.times, self.properties)>>]

\* subsample and dtype are given as <<>> (None) or <<value>>; a subsample is
\* [isInt, v], isInt telling whether it is a Python int
copy(self, dtype, subsample) ==
    LET step == IF subsample = <<>> THEN 1 ELSE subsample[1].v
        data == Slice(self.data, 0, nframes(self), step)
        times == Slice(self.times, 0, nframes(self), step)
    IN  IF subsample # <<>> /\ (~subsample[1].isInt \/ subsample[1].v <= 0)
        THEN [status |-> Raise("ValueError",
                               "subsample must be a strictly positive integer"),
              result |-> <<>>]
        ELSE IF dtype # <<>>
        THEN [status |-> Ok,
              result |-> <<Features(astype(data, dtype[1]),
                                    astype(times, dtype[1]),
                                    self.properties)>>]
        ELSE [status |-> Ok,
              result |-> <<Features(data, times, self.properties)>>]

\* --------------------------------------------------------- concatenate ----
Abs(x) == IF x < 0 THEN -x ELSE x

\* x[:-diff], diff > 0
TrimTail(x, diff) ==
    LET m == IF Len(x.rows) > diff THEN Len(x.rows) - diff ELSE 0
    IN  [x EXCEPT !.rows = SubSeq(x.rows, 1, m), !.shape[1] = m]

\* np.isclose(a, b) with rtol=1e-5 and atol=1e-8 on integral values:
\* |a - b| <= atol + rtol * |b|
isclose(a, b) == Abs(a - b) <= Abs(b) \div 100000

\* np.allclose(x, y) of two arrays of 1 or 2 dimensions: "true", "false",
\* or "error" when their shapes cannot be broadcast together
allclose(x, y) ==
    LET n == Len(x.rows)
        Elementwise ==
            \A i \in 1..n : \A j \in 1..Len(x.rows[i]) :
                isclose(x.rows[i][j], y.rows[i][j])
        \* v of shape (n,) against m of shape (n', 2): v is one row
        Mixed(v, m, vFirst) ==
            IF Len(v.rows) = 1 \/ Len(v.rows) = 2
            THEN IF \A i \in 1..Len(m.rows) : \A j \in 1..2 :
                       LET e == v.rows[IF Len(v.rows) = 1 THEN 1 ELSE j][1]
                       IN  IF vFirst THEN isclose(e, m.rows[i][j])
                           ELSE isclose(m.rows[i][j], e)
                 THEN "true" ELSE "false"
            ELSE "error"
    IN  IF ndim(x) = ndim(y)
        THEN IF x.shape = y.shape
             THEN IF Elementwise THEN "true" ELSE "false"
             ELSE "error"
        ELSE IF ndim(x) = 1 THEN Mixed(x, y, TRUE)
        ELSE Mixed(y, x, FALSE)

\* mutant of hstack: the columns of y come first
hstack_swapped(x, y) ==
    Arr(<<x.shape[1], x.shape[2] + y.shape[2]>>,
        [i \in 1..Len(x.rows) |-> y.rows[i] \o x.rows[i]])

\* np.hstack((x, y)) of two 2-D arrays with the same number of rows
hstack(x, y) ==
    Arr(<<x.shape[1], x.shape[2] + y.shape[2]>>,
        [i \in 1..Len(x.rows) |-> x.rows[i] \o y.rows[i]])

Keys == {"k1", "k2"}

\* The objects behind the properties of the operands and the copies made of
\* them: dictionaries [kv, has, list], lists of entries and entries, each
\* kind addressed by its position in the heap.
EmptyHeap == [dicts |-> <<>>, lists |-> <<>>, entries |-> <<>>]

\* new objects holding the properties p: [heap, ref], ref the dictionary
Store(h, p) ==
    [heap |->
        [dicts |-> Append(h.dicts,
                          [kv |-> p.kv, has |-> p.has,
                           list |-> IF p.has THEN Len(h.lists) + 1 ELSE 0]),
         lists |-> IF p.has
                   THEN Append(h.lists, [i \in 1..Len(p.pipeline) |->
                                            Len(h.entries) + i])
                   ELSE h.lists,
         entries |-> h.entries \o p.pipeline],
     ref |-> Len(h.dicts) + 1]

\* the properties held by the dictionary at ref
Load(h, ref) ==
    LET d == h.dicts[ref]
    IN  [isDict |-> TRUE, kv |-> d.kv, has |-> d.has,
         pipeline |-> IF d.has
                      THEN [i \in 1..Len(h.lists[d.list]) |->
                              h.entries[h.lists[d.list][i]]]
                      ELSE <<>>]

\* copy.deepcopy of the dictionary at ref: new objects throughout
deepcopy(h, ref) == Store(h, Load(h, ref))

\* mutant of update: a key both have keeps the value of self
update_keep(h, p, q) ==
    [h EXCEPT !.dicts[p].kv =
        [k \in Keys |-> IF @[k] # Absent THEN @[k] ELSE h.dicts[q].kv[k]]]

\* properties.update({k: v for k, v in other_properties.items()
\*                    if k != 'pipeline'})
update(h, p, q) ==
    [h EXCEPT !.dicts[p].kv =
        [k \in Keys |-> IF h.dicts[q].kv[k] # Absent THEN h.dicts[q].kv[k]
                        ELSE @[k]]]

\* if 'pipeline' not in properties: properties['pipeline'] = []
setdefault(h, p) ==
    IF h.dicts[p].has THEN h
    ELSE [h EXCEPT !.lists = Append(@, <<>>),
                   !.dicts[p].has = TRUE,
                   !.dicts[p].list = Len(h.lists) + 1]

\* mutant of shifted: the columns are recorded as other has them
shifted_none(columns, nd) == columns

\* the columns of an entry of other, as recorded in the result
shifted(columns, nd) == <<columns[1] + nd, columns[2] + nd>>

\* for k in other_properties['pipeline'], from its i-th entry on: append k
\* to properties['pipeline'] and shift the columns of that last entry
RECURSIVE extend(_, _, _, _, _)
extend(h, p, q, i, nd) ==
    LET pl == h.dicts[p].list
        ql == h.dicts[q].list
    IN  IF i > Len(h.lists[ql]) THEN h
        ELSE LET h1 == [h EXCEPT !.lists[pl] = Append(@, h.lists[ql][i])]
                 e == h1.lists[pl][Len(h1.lists[pl])]
                 columns == h1.entries[e].columns
             IN  extend([h1 EXCEPT !.entries[e].columns = shifted(columns, nd)],
                        p, q, i + 1, nd)

\* mutant of copy_other: other_properties is other.properties itself
copy_other_alias(h, oref) == [heap |-> h, ref |-> oref]

\* other_properties = copy.deepcopy(other.properties)
copy_other(h, oref) == deepcopy(h, oref)

\* the merge of the properties of self (at sref) and other (at oref):
\* [heap, ref], ref the merged dictionary
merge(h, sref, oref, nd) ==
    LET properties == deepcopy(h, sref)
        other_properties == copy_other(properties.heap, oref)
        p == properties.ref
        q == other_properties.ref
        h1 == setdefault(update(other_properties.heap, p, q), p)
    IN  [heap |-> IF h1.dicts[q].has THEN extend(h1, p, q, 1, nd) ELSE h1,
         ref |-> p]

\* mutant of trim: self is trimmed whichever operand is the longer
trim_self(self, other, diff, need_trim) ==
    IF need_trim
    THEN [data1 |-> TrimTail(self.data, diff),
          times1 |-> TrimTail(self.times, diff),
          data2 |-> other.data, times2 |-> other.times]
    ELSE [data1 |-> self.data, times1 |-> self.times,
          data2 |-> other.data, times2 |-> other.times]

\* the arrays to paste: those of the operands, the longer ones trimmed to
\* the length of the shorter when need_trim
trim(self, other, diff, need_trim) ==
    IF need_trim /\ nframes(self) > nframes(other)
    THEN [data1 |-> TrimTail(self.data, diff),
          times1 |-> TrimTail(self.times, diff),
          data2 |-> other.data, times2 |-> other.times]
    ELSE IF need_trim
    THEN [data1 |-> self.data, times1 |-> self.times,
          data2 |-> TrimTail(other.data, diff),
          times2 |-> TrimTail(other.times, diff)]
    ELSE [data1 |-> self.data, times1 |-> self.times,
          data2 |-> other.data, times2 |-> other.times]

\* self.concatenate(other, tolerance); same tells that other is self.
\* Returns what is raised, the result, and self and other as they are after
\* the call.
concatenate(self, other, same, tolerance, tie) ==
    LET diff == Abs(nframes(self) - nframes(other))
        t == trim(self, other, diff, diff # 0)
        close == allclose(t.times1, t.times2)
        h0 == Store(EmptyHeap, self.properties)
        h1 == IF same THEN h0 ELSE Store(h0.heap, other.properties)
        m == merge(h1.heap, h0.ref, h1.ref, ndims(self))
        result == Features(hstack(t.data1, t.data2), t.times1,
                           Load(m.heap, m.ref))
        v == validate(result, tie)
        Untouched(status) ==
            [status |-> status, result |-> <<>>, self |-> self,
             other |-> other]
    IN  IF diff # 0 /\ tolerance = 0
        THEN Untouched(Raise("ValueError",
                             "features have a different number of frames"))
        ELSE IF diff # 0 /\ diff > tolerance
        THEN Untouched(Raise("ValueError",
                             "features differs number of frames"))
        ELSE IF close = "error"
        THEN Untouched(Raise("ValueError",
                             "operands could not be broadcast together"))
        ELSE IF close = "false"
        THEN Untouched(Raise("ValueError", "times are not equal"))
        ELSE [status |-> v,
              result |-> IF v.exc = "None" THEN <<result>> ELSE <<>>,
              self |-> [self EXCEPT !.properties = Load(m.heap, h0.ref)],
              other |-> [other EXCEPT !.properties = Load(m.heap, h1.ref)]]

\* ------------------------------------------------------ program state ----
\* objs: the Features objects the caller holds, by variable name
\* last: the last call made, with what it raised or returned
\* tieOrder: how the build's np.argsort orders equal elements
Slots == {"a", "b", "c", "r", "s"}

NoCall ==
    [op |-> "none", self |-> "", other |-> "", tolerance |-> 0,
     subsample |-> <<>>, dtype |-> <<>>, exc |-> "None", msg |-> "",
     ret |-> FALSE, result |-> <<>>]

Call(op, self, other, status) ==
    [NoCall EXCEPT !.op = op, !.self = self, !.other = other,
                   !.exc = status.exc, !.msg = status.msg]

Bind(slot, f) ==
    [s \in (DOMAIN objs) \cup {slot} |-> IF s = slot THEN f ELSE objs[s]]

\* Features.__init__(data, times, properties, validate), bound to slot
Construct(slot, data, times, properties, check) ==
    LET f == Features(data, times, properties)
        v == IF check THEN validate(f, tieOrder) ELSE Ok
    IN  /\ last' = [Call("__init__", slot, "", v) EXCEPT
                      !.result = IF v.exc = "None" THEN <<f>> ELSE <<>>]
        /\ objs' = IF v.exc = "None" THEN Bind(slot, f) ELSE objs
        /\ UNCHANGED tieOrder

\* objs[slot].validate()
Validate(slot) ==
    /\ slot \in DOMAIN objs
    /\ last' = Call("validate", slot, "", validate(objs[slot], tieOrder))
    /\ UNCHANGED <<objs, tieOrder>>

\* objs[slot].is_valid()
IsValid(slot) ==
    LET v == is_valid(objs[slot], tieOrder)
    IN  /\ slot \in DOMAIN objs
        /\ last' = [Call("is_valid", slot, "",
                           [exc |-> v.exc, msg |-> ""])
                      EXCEPT !.ret = v.ret]
        /\ UNCHANGED <<objs, tieOrder>>

\* the objects held after a call that returned result (<<>> when it raised)
\* and is bound to dst, a name of Slots, or dropped (any other dst)
Bound(after, result, dst) ==
    IF result # <<>> /\ dst \in Slots
    THEN [s \in (DOMAIN after) \cup {dst} |->
            IF s = dst THEN result[1] ELSE after[s]]
    ELSE after

\* dst = objs[x].concatenate(objs[y], tolerance)
Concatenate(x, y, tolerance, dst) ==
    /\ x \in DOMAIN objs
    /\ y \in DOMAIN objs
    /\ LET c == concatenate(objs[x], objs[y], x = y, tolerance, tieOrder)
           after == [s \in DOMAIN objs |->
                       IF s = x THEN c.self
                       ELSE IF s = y THEN c.other ELSE objs[s]]
       IN  /\ last' = [Call("concatenate", x, y, c.status) EXCEPT
                         !.tolerance = tolerance, !.result = c.result]
           /\ objs' = Bound(after, c.result, dst)
    /\ UNCHANGED tieOrder

\* dst = objs[x].copy(dtype, subsample)
Copy(x, dtype, subsample, dst) ==
    /\ x \in DOMAIN objs
    /\ LET c == copy(objs[x], dtype, subsample)
       IN  /\ last' = [Call("copy", x, "", c.status) EXCEPT
                         !.subsample = subsample, !.dtype = dtype,
                         !.result = c.result]
           /\ objs' = Bound(objs, c.result, dst)
    /\ UNCHANGED tieOrder

\* ------------------------------------------------------------ inputs ----
Times == 0..MaxTime

RECURSIVE SeqsOf(_, _)
SeqsOf(S, n) ==
    IF n = 0 THEN {<<>>}
    ELSE {Append(s, x) : s \in SeqsOf(S, n - 1), x \in S}

SeqsUpTo(S, n) == UNION {SeqsOf(S, k) : k \in 0..n}

\* data of shape (n, d) whose cell (i, j) holds seed, frame and column
MkData(seed, n, d) ==
    Arr(<<n, d>>, [i \in 1..n |-> [j \in 1..d |-> 100 * seed + 10 * i + j]])

WithNaN(x, i, j) == [x EXCEPT !.rows[i][j] = NaN]

Times1D(n) == {Arr(<<Len(s)>>, s) : s \in SeqsUpTo({<<t>> : t \in Times}, n)}

Times2D(n) ==
    {Arr(<<Len(s), 2>>, s) :
        s \in SeqsUpTo({<<t, u>> : t \in Times, u \in Times}, n)}

EmptyProps ==
    [isDict |-> TRUE, kv |-> [k \in {"k1", "k2"} |-> Absent], has |-> FALSE,
     pipeline |-> <<>>]

NotDict == [EmptyProps EXCEPT !.isDict = FALSE]

\* what Features(data, times, properties, validate=False) can be given
AnyData ==
    {NotArr, Arr(<<>>, <<>>), Arr(<<MaxFramesV, 1, 1>>, <<>>)}
    \cup {Arr(<<n>>, [i \in 1..n |-> <<i>>]) : n \in 0..MaxFramesV}
    \cup {MkData(1, n, d) : n \in 0..MaxFramesV, d \in 1..MaxDims}
    \cup UNION {{WithNaN(MkData(1, n, d), i, j) : i \in 1..n, j \in 1..d} :
                  n \in 1..MaxFramesV, d \in 1..MaxDims}

AnyTimes ==
    {NotArr, Arr(<<>>, <<>>), Arr(<<MaxFramesV, 2, 1>>, <<>>)}
    \cup Times1D(MaxFramesV) \cup Times2D(MaxFramesV)
    \cup {Arr(<<n, m>>, [i \in 1..n |-> [j \in 1..m |-> 0]]) :
            n \in 0..MaxFramesV, m \in {1, 3}}

AnyFeatures ==
    {Features(d, t, p) : d \in AnyData, t \in AnyTimes,
                         p \in {EmptyProps, NotDict}}

\* times with its rows i and j exchanged
Exchanged(times, i, j) ==
    [times EXCEPT !.rows[i] = times.rows[j], !.rows[j] = times.rows[i]]

\* ------------------------------------------- validation specification ----
\* a holds any object built with validate=False; b is a with two rows of
\* its times exchanged
InitV ==
    /\ objs \in {[s \in {"a"} |-> f] : f \in AnyFeatures}
    /\ last = NoCall
    /\ tieOrder \in {"kept", "reversed"}

ExchangeTimes ==
    /\ objs["a"].times.isArray
    /\ \E i, j \in 1..Len(objs["a"].times.rows) :
          /\ i < j
          /\ Construct("b", objs["a"].data, Exchanged(objs["a"].times, i, j),
                       objs["a"].properties, FALSE)

NextV ==
    \/ \E s \in {"a", "b"} : Validate(s)
    \/ \E s \in {"a", "b"} : IsValid(s)
    \/ ExchangeTimes

SpecV == InitV /\ [][NextV]_vars

\* --------------------------------- specification of one concatenation ----
\* a and b are two valid Features, built by the constructor from data of 1
\* to MaxDims columns and 1-D or 2-D times of up to MaxFrames frames; one
\* concatenation is made on them, its result returned and not kept.
Big == 100 * 1000

OpTimes == {0, Big, Big + 1}

OpTimes1D(n) ==
    {Arr(<<Len(s)>>, s) : s \in SeqsUpTo({<<t>> : t \in OpTimes}, n)}

OpTimes2D(n) ==
    {Arr(<<Len(s), 2>>, s) :
        s \in SeqsUpTo({<<t, t + 1>> : t \in {0, Big}}, n)}

\* the properties a processor stamps: one pipeline entry for all the columns
OneStep(name, d) ==
    [EmptyProps EXCEPT !.has = TRUE,
                       !.pipeline = <<[name |-> <<name, 1>>, columns |-> <<0, d>>]>>]

OpInputs(seed, name, n) ==
    {Features(MkData(seed, t.shape[1], d), t, OneStep(name, d)) :
        t \in OpTimes1D(n) \cup OpTimes2D(n), d \in 1..MaxDims}

Constructed(inputs, tie) == {f \in inputs : validate(f, tie) = Ok}

Tolerances == (-1)..MaxTol

Init ==
    /\ tieOrder \in {"kept", "reversed"}
    /\ objs \in {[s \in {"a", "b"} |-> IF s = "a" THEN fa ELSE fb] :
                    fa \in Constructed(OpInputs(1, "a", MaxFrames), tieOrder),
                    fb \in Constructed(OpInputs(2, "b", MaxFrames), tieOrder)}
    /\ last = NoCall

Next ==
    /\ last.op = "none"
    /\ \E x, y \in {"a", "b"} : \E t \in Tolerances :
          Concatenate(x, y, t, "none")

Spec == Init /\ [][Next]_vars

\* ------------------------------------------- claims on concatenate ----
Min(x, y) == IF x < y THEN x ELSE y

CallSelf == objs[last.self]
CallOther == objs[last.other]
Returned == last.exc = "None" /\ last.result # <<>>
FrameDiff == Abs(nframes(CallSelf) - nframes(CallOther))

\* the times of the operands are of the same kind and equal on the frames
\* both have
PrefixAgree(x, y) ==
    /\ ndim(x.times) = ndim(y.times)
    /\ \A i \in 1..Min(nframes(x), nframes(y)) : x.times.rows[i] = y.times.rows[i]

\* r holds the first n frames of x followed, column-wise, by those of y, at
\* the first n times of x
Pasted(r, x, y, n) ==
    /\ r.data.shape = <<n, ndims(x) + ndims(y)>>
    /\ Len(r.data.rows) = n
    /\ \A i \in 1..n :
          /\ SubSeq(r.data.rows[i], 1, ndims(x)) = x.data.rows[i]
          /\ SubSeq(r.data.rows[i], ndims(x) + 1, ndims(x) + ndims(y))
                = y.data.rows[i]
    /\ r.times.shape[1] = n
    /\ r.times.rows = SubSeq(x.times.rows, 1, n)

Reconciled(t) ==
    /\ FrameDiff > t => last.exc = "ValueError"
    /\ (0 < FrameDiff /\ FrameDiff <= t)
          => /\ Returned
             /\ Pasted(last.result[1], CallSelf, CallOther,
                       Min(nframes(CallSelf), nframes(CallOther)))

\* C1 as stated: for valid a and b whose times agree on their common
\* prefix and any tolerance t, a.concatenate(b, tolerance=t) raises a
\* ValueError when the frame counts differ by more than t, and when they
\* differ by at most t (and differ) it returns min(nframes) frames, the last
\* frames of the longer operand dropped.
C1_AnyTolerance ==
    (last.op = "concatenate" /\ PrefixAgree(CallSelf, CallOther))
    => Reconciled(last.tolerance)

\* C1 amended: the same for every tolerance t >= 0 (with a negative
\* tolerance, operands of equal frame count are concatenated, not refused).
C1_FrameReconciliation ==
    (/\ last.op = "concatenate"
     /\ PrefixAgree(CallSelf, CallOther)
     /\ last.tolerance >= 0)
    => Reconciled(last.tolerance)

\* other is the longer operand, within the tolerance, and was trimmed
C1_Witness ==
    /\ last.op = "concatenate"
    /\ PrefixAgree(CallSelf, CallOther)
    /\ nframes(CallOther) > nframes(CallSelf)
    /\ nframes(CallSelf) > 0
    /\ FrameDiff <= last.tolerance
    /\ Returned

\* C2: for valid a and b with identical times, a.concatenate(b) returns r
\* with r.ndims = a.ndims + b.ndims, r.nframes = a.nframes, the first
\* a.ndims columns of r.data equal to a.data, the others to b.data, and
\* r.times equal to a.times.
C2_ColumnLayout ==
    (last.op = "concatenate" /\ CallSelf.times = CallOther.times)
    => /\ Returned
       /\ Pasted(last.result[1], CallSelf, CallOther, nframes(CallSelf))
       /\ last.result[1].times = CallSelf.times

C2_Witness ==
    /\ last.op = "concatenate"
    /\ last.self = "a" /\ last.other = "b"
    /\ CallSelf.times = CallOther.times
    /\ nframes(CallSelf) = MaxFrames
    /\ ndims(CallSelf) # ndims(CallOther)
    /\ Returned

\* ----------------------- specification of one merge of properties ----
\* a and b are valid Features of one or two frames on the same time axis,
\* with properties of up to two keys and, or not, a pipeline of up to
\* MaxEntries entries; one concatenation is made on them.
PropTimes == {Arr(<<n>>, [i \in 1..n |-> <<(i - 1) * Big>>]) : n \in 1..2}

\* a pipeline of k entries that between them cover the columns [0, d)
Steps(name, d, k) ==
    [i \in 1..k |-> [name |-> <<name, i>>,
                      columns |-> <<i - 1, IF i = k THEN d ELSE i>>]]

PropInputs(seed, name) ==
    {Features(MkData(seed, t.shape[1], d), t,
              [isDict |-> TRUE,
               kv |-> [k \in Keys |-> IF k \in K THEN seed ELSE Absent],
               has |-> n >= 0,
               pipeline |-> IF n >= 0 THEN Steps(name, d, n) ELSE <<>>]) :
        t \in PropTimes, d \in 1..MaxDims, K \in {{}, {"k1"}, {"k1", "k2"}},
        n \in (-1)..MaxEntries}

InitProps ==
    /\ tieOrder = "kept"
    /\ objs \in {[s \in {"a", "b"} |-> IF s = "a" THEN fa ELSE fb] :
                    fa \in Constructed(PropInputs(1, "a"), tieOrder),
                    fb \in Constructed(PropInputs(2, "b"), tieOrder)}
    /\ last = NoCall

NextProps ==
    /\ last.op = "none"
    /\ \E x, y \in {"a", "b"} : \E t \in 0..1 : Concatenate(x, y, t, "none")

SpecProps == InitProps /\ [][NextProps]_vars

\* C3: the properties of the result of a.concatenate(b) are those of a
\* overridden by every key of b other than 'pipeline'; they have a
\* 'pipeline' list, made of the entries of a, unchanged and in order,
\* followed by those of b in order, each with its columns [s, e] replaced by
\* [s + a.ndims, e + a.ndims].
C3_PropertiesMerge ==
    (last.op = "concatenate" /\ Returned)
    => LET r == last.result[1].properties
           pa == CallSelf.properties
           pb == CallOther.properties
           nd == ndims(CallSelf)
       IN  /\ r.isDict
           /\ \A k \in Keys :
                 r.kv[k] = IF pb.kv[k] # Absent THEN pb.kv[k] ELSE pa.kv[k]
           /\ r.has
           /\ Len(r.pipeline) = Len(pa.pipeline) + Len(pb.pipeline)
           /\ \A i \in 1..Len(pa.pipeline) : r.pipeline[i] = pa.pipeline[i]
           /\ \A i \in 1..Len(pb.pipeline) :
                 LET e == r.pipeline[Len(pa.pipeline) + i]
                 IN  /\ e.name = pb.pipeline[i].name
                     /\ e.columns[1] = pb.pipeline[i].columns[1] + nd
                     /\ e.columns[2] = pb.pipeline[i].columns[2] + nd

\* b overrides a key of a and brings its own, and both have pipeline entries
C3_Witness ==
    /\ last.op = "concatenate" /\ Returned
    /\ last.self = "a" /\ last.other = "b"
    /\ CallSelf.properties.kv["k1"] # Absent
    /\ CallSelf.properties.kv["k2"] = Absent
    /\ CallOther.properties.kv["k2"] # Absent
    /\ Len(CallSelf.properties.pipeline) = MaxEntries
    /\ Len(CallOther.properties.pipeline) = MaxEntries

\* C10: a.concatenate(b, tolerance=t) leaves a and b as they were, whether
\* it returns, with or without trimming, or raises: same data, times and
\* properties, the columns of the pipeline of b not shifted, no key and no
\* pipeline entry added to a.
C10_OperandsUnchanged ==
    [][last'.op = "concatenate" => objs' = objs]_vars

\* a concatenation that trimmed and shifted the pipeline entries of other
C10_Witness ==
    /\ last.op = "concatenate" /\ Returned
    /\ FrameDiff > 0
    /\ last.self # last.other
    /\ ~CallSelf.properties.has
    /\ CallOther.properties.kv["k1"] # Absent
    /\ Len(CallOther.properties.pipeline) = MaxEntries

\* ------------------------------------------ specification of one copy ----
\* a is a valid Features of up to MaxFramesC frames; one copy is made of it
Subsamples ==
    {<<>>, <<[isInt |-> FALSE, v |-> 2]>>}
    \cup {<<[isInt |-> TRUE, v |-> k]>> : k \in (-1)..MaxSub}

InitCopy ==
    /\ tieOrder \in {"kept", "reversed"}
    /\ objs \in {[s \in {"a"} |-> f] :
                    f \in Constructed(OpInputs(1, "a", MaxFramesC), tieOrder)}
    /\ last = NoCall

NextCopy ==
    /\ last.op = "none"
    /\ \E dtype \in {<<>>, <<"bool">>} : \E k \in Subsamples :
          Copy("a", dtype, k, "none")

SpecCopy == InitCopy /\ [][NextCopy]_vars

\* ------------------------------- specification of nested concatenations ----
\* a, b and c are valid Features on one time axis, each with a single
\* pipeline entry over its columns [0, ndims); r and s hold the results of
\* concatenations, r those that append a base object on the right and s
\* those that put a base object on the left.
Bases == {"a", "b", "c"}

ChainTimes == Arr(<<MaxFrames>>, [i \in 1..MaxFrames |-> <<(i - 1) * Big>>])

ChainInput(seed, name, d) ==
    Features(MkData(seed, MaxFrames, d), ChainTimes, OneStep(name, d))

InitChain ==
    /\ tieOrder = "kept"
    /\ objs \in {[x \in Bases |->
                    IF x = "a" THEN ChainInput(1, "a", da)
                    ELSE IF x = "b" THEN ChainInput(2, "b", MaxDims + 1 - da)
                    ELSE ChainInput(3, "c", 1)] :
                    da \in 1..MaxDims}
    /\ \A x \in Bases : validate(objs[x], tieOrder) = Ok
    /\ last = NoCall

Parts(x) == Len(objs[x].properties.pipeline)

AppendRight ==
    \E x \in Bases \cup {"r", "s"} : \E y \in Bases :
        /\ x \in DOMAIN objs
        /\ Parts(x) + Parts(y) <= MaxParts
        /\ Concatenate(x, y, 0, "r")

AppendLeft ==
    \E x \in Bases : \E y \in Bases \cup {"r", "s"} :
        /\ y \in DOMAIN objs
        /\ Parts(x) + Parts(y) <= MaxParts
        /\ Concatenate(x, y, 0, "s")

NextChain == AppendRight \/ AppendLeft

SpecChain == InitChain /\ [][NextChain]_vars

\* ------------------------------------- specification of derived objects ----
\* a is a valid Features; r holds what was last derived from a and r by a
\* copy with a strictly positive subsample or by a concatenation.
InitDerive ==
    /\ tieOrder \in {"kept", "reversed"}
    /\ objs \in {[x \in {"a"} |-> f] :
                    f \in Constructed(OpInputs(1, "a", MaxFramesC), tieOrder)}
    /\ last = NoCall

DeriveCopy ==
    \E x \in {"a", "r"} : \E k \in 1..MaxSub :
        Copy(x, <<>>, <<[isInt |-> TRUE, v |-> k]>>, "r")

DeriveConcatenate ==
    \E x, y \in {"a", "r"} : \E t \in {0, MaxTol} :
        /\ x \in DOMAIN objs
        /\ y \in DOMAIN objs
        /\ ndims(objs[x]) + ndims(objs[y]) <= MaxCols
        /\ Concatenate(x, y, t, "r")

NextDerive == DeriveCopy \/ DeriveConcatenate

SpecDerive == InitDerive /\ [][NextDerive]_vars

\* ---------------------------------------------- claims on validation ----
\* data and times are arrays of well-formed matching shape: data 2-D, times
\* 1-D or of shape (nframes, 2), the same number of frames in both
ShapesMatch(f) ==
    /\ f.data.isArray /\ f.times.isArray /\ f.properties.isDict
    /\ ndim(f.data) = 2
    /\ \/ ndim(f.times) = 1
       \/ ndim(f.times) = 2 /\ f.times.shape[2] = 2
    /\ f.data.shape[1] = f.times.shape[1]

AllFinite(x) ==
    \A i \in 1..Len(x.rows) : \A j \in 1..Len(x.rows[i]) : x.rows[i][j] # NaN

\* a row of times before another: t < u for timestamps, lexicographic order
\* of the pair (start, end) for rows of 2-D times
RowBefore(r, q) ==
    \/ r[1] < q[1]
    \/ Len(r) = 2 /\ r[1] = q[1] /\ r[2] < q[2]

StrictlyIncreasing(times) ==
    \A n \in 1..(Len(times.rows) - 1) :
        RowBefore(times.rows[n], times.rows[n + 1])

\* C4: a Features of finite 2-D data and strictly increasing times of
\* matching frame count is valid (is_valid() returns True), and the same
\* Features with two rows of its times exchanged is not (is_valid() returns
\* False).
C4_WellFormedIsValid ==
    (/\ last.op = "is_valid"
     /\ ShapesMatch(objs["a"]) /\ AllFinite(objs["a"].data)
     /\ StrictlyIncreasing(objs["a"].times))
    => /\ last.exc = "None"
       /\ last.self = "a" => last.ret
       /\ last.self = "b" => ~last.ret

\* C5: validate() raises a ValueError on every Features of well-formed
\* matching shape whose times has an adjacent pair of timestamps (or rows)
\* that is decreasing or equal.
C5_StrictOrderEnforced ==
    (/\ last.op = "validate"
     /\ ShapesMatch(objs[last.self])
     /\ ~StrictlyIncreasing(objs[last.self].times))
    => last.exc = "ValueError"

\* C7: is_valid() never raises, whatever the object holds, and returns True
\* exactly when validate() returns without raising.
C7_IsValidNeverRaises ==
    last.op = "is_valid"
    => /\ last.exc = "None"
       /\ last.ret <=> (validate(objs[last.self], tieOrder).exc = "None")

\* ---------------------------------------------------- claims on copy ----
\* r holds the frames 0, k, 2k, ... of f: ceil(n / k) of them, from data
\* and from times alike
Subsampled(r, f, k) ==
    LET n == nframes(f)
        m == nframes(r)
    IN  /\ m * k >= n /\ (m > 0 => (m - 1) * k < n)
        /\ ndims(r) = ndims(f)
        /\ Len(r.data.rows) = m /\ Len(r.times.rows) = m
        /\ r.times.shape = [f.times.shape EXCEPT ![1] = m]
        /\ \A i \in 0..(m - 1) :
              /\ r.data.rows[i + 1] = f.data.rows[i * k + 1]
              /\ r.times.rows[i + 1] = f.times.rows[i * k + 1]

\* C6: f.copy(subsample=k), k a strictly positive integer, has ceil(n / k)
\* frames, the i-th being frame i*k of f in data and in times, and the
\* ndims of f; with no subsample the copy has all the n frames.
C6_FrameSelection ==
    (/\ last.op = "copy"
     /\ last.dtype = <<>>
     /\ last.subsample # <<>> => (last.subsample[1].isInt
                                  /\ last.subsample[1].v > 0))
    => /\ Returned
       /\ Subsampled(last.result[1], CallSelf,
                     IF last.subsample = <<>> THEN 1 ELSE last.subsample[1].v)

\* a copy of every second frame of three, or of every third of four
C6_Witness ==
    /\ last.op = "copy" /\ last.dtype = <<>> /\ Returned
    /\ last.subsample # <<>> /\ last.subsample[1].isInt
    /\ last.subsample[1].v > 1
    /\ nframes(CallSelf) > last.subsample[1].v
    /\ nframes(CallSelf) % last.subsample[1].v # 0
    /\ nframes(last.result[1]) = 2

\* ------------------------------------------ claims on derived objects ----
\* the column ranges of the pipeline of f are in order, contiguous and not
\* overlapping, from 0 to the number of columns of f
Partition(f) ==
    LET p == f.properties.pipeline
    IN  /\ f.properties.has
        /\ Len(p) >= 1
        /\ p[1].columns[1] = 0
        /\ p[Len(p)].columns[2] = ndims(f)
        /\ \A i \in 1..Len(p) : p[i].columns[1] < p[i].columns[2]
        /\ \A i \in 1..(Len(p) - 1) : p[i].columns[2] = p[i + 1].columns[1]

\* the objects a Features was concatenated from, left to right
Names(f) == [i \in 1..Len(f.properties.pipeline) |-> f.properties.pipeline[i].name]

\* C8: from valid Features on the same times, each with a single pipeline
\* entry of columns [0, ndims), every result of a sequence of concatenations
\* has pipeline column ranges that are in order, contiguous, not overlapping,
\* from 0 to its ndims; and two results made of the same objects in the same
\* order, however nested, have the same data and the same column ranges.
C8_PipelinePartition ==
    /\ \A x \in DOMAIN objs : Partition(objs[x])
    /\ \A x, y \in DOMAIN objs :
          Names(objs[x]) = Names(objs[y])
          => /\ objs[x].data = objs[y].data
             /\ objs[x].properties.pipeline = objs[y].properties.pipeline

\* r is (a + b) + c and s is a + (b + c)
C8_Witness ==
    /\ "r" \in DOMAIN objs /\ "s" \in DOMAIN objs
    /\ Names(objs["r"]) = <<<<"a", 1>>, <<"b", 1>>, <<"c", 1>>>>
    /\ Names(objs["s"]) = <<<<"a", 1>>, <<"b", 1>>, <<"c", 1>>>>
    /\ ndims(objs["a"]) # ndims(objs["b"])

\* C9: every Features derived from a valid one by copies with a strictly
\* positive integer subsample (no dtype) and successful concatenations has
\* 2-D data, times 1-D or of shape (nframes, 2), as many frames in data as
\* in times, finite data, and passes validate(); and no concatenation of
\* valid operands fails in the validation of its result.
C9_ValidityClosed ==
    /\ \A x \in DOMAIN objs :
          /\ ShapesMatch(objs[x])
          /\ AllFinite(objs[x].data)
          /\ validate(objs[x], tieOrder) = Ok
    /\ last.op = "concatenate"
       => last.msg \notin {"invalid features data types",
                           "invalid features dimensions",
                           "times is not sorted in increasing order",
                           "data contains non-finite numbers",
                           "tuple index out of range"}
    /\ last.op = "copy" => Returned

\* a concatenation that returned fewer frames than a has, and more than
\* none: one of its operands came from a copy that subsampled
C9_Witness ==
    /\ last.op = "concatenate" /\ Returned
    /\ nframes(last.result[1]) < nframes(objs["a"])
    /\ nframes(last.result[1]) > 1
    /\ ndims(last.result[1]) > ndims(objs["a"])


====
